---------------------------- MODULE Spec2Model ----------------------------
(***************************************************************************)
(* cobalt::dom::IntersectionObserver (src/cobalt/dom/intersection_observer.cc)*)
(*                                                                         *)
(* The observer's fields (thresholds_, observation_targets_,               *)
(* queued_entries_), its constructor, its script-exposed methods (Observe, *)
(* Unobserve, Disconnect, TakeRecords) and its engine-driven methods       *)
(* (QueueIntersectionObserverEntry, Notify, the destructor), together with *)
(* the calls they make on their collaborators: the Element's registration  *)
(* API, the IntersectionObserverTaskManager and the script callback.       *)
(*                                                                         *)
(* Execution is single threaded.  The only interleaving is re-entrancy:    *)
(* while Notify() runs the script callback, the script may call the        *)
(* script-exposed methods of any observer.  The engine-driven methods run  *)
(* to completion and are never entered from inside the callback.           *)
(***************************************************************************)
EXTENDS Integers, Sequences, FiniteSets

\* ------------------------------------------------------------------ bounds
\* Entries the geometry engine produces in one behaviour.
MaxEntries == 3
\* Longest threshold sequence passed to the constructor.
MaxThresholds == 3
\* Ratios are modelled in units of 1/Scale: the double 1.0 is Scale.
Scale == 4
\* Turns a loop with invalidated iterators is followed for.
MaxVisits == 2

\* ------------------------------------------------------------ identities
Observers == {"o1", "o2"}
Targets == {"A", "B", "C"}
\* A slot of observation_targets_ whose reference is gone.
NULL == "null"
\* No observer, no target.
None == "-"

\* Ratios offered to the constructor: below 0.0, inside [0.0, 1.0], above 1.0.
RatioInputs == (0 - 1)..(Scale + 1)

RECURSIVE SeqsUpTo(_, _)
SeqsUpTo(S, n) ==
  IF n = 0 THEN {<<>>}
  ELSE LET shorter == SeqsUpTo(S, n - 1)
       IN  shorter \cup {Append(s, x) : s \in {q \in shorter : Len(q) = n - 1}, x \in S}

\* options.threshold() is a double or a sequence of doubles; options.root_margin()
\* is text the CSS parser accepts or not.
ThresholdInputs ==
  {[kind |-> "double", value |-> <<r>>] : r \in RatioInputs}
    \cup {[kind |-> "sequence", value |-> s] : s \in SeqsUpTo(RatioInputs, MaxThresholds)}

AllOptions ==
  {[margin_parses |-> m, threshold |-> t] : m \in BOOLEAN, t \in ThresholdInputs}

\* Options that construct a valid observer: a margin that parses and the single
\* ratio 0.0.
ValidOptions == [margin_parses |-> TRUE, threshold |-> [kind |-> "double", value |-> <<0>>]]

\* The options the lifecycle specification constructs observers with: valid
\* ones, a malformed margin, a single ratio above 1.0, and a sequence whose
\* second ratio is above 1.0.
LifecycleOptions ==
  { ValidOptions,
    [margin_parses |-> FALSE, threshold |-> [kind |-> "double", value |-> <<0>>]],
    [margin_parses |-> TRUE, threshold |-> [kind |-> "double", value |-> <<Scale + 1>>]],
    [margin_parses |-> TRUE, threshold |-> [kind |-> "sequence", value |-> <<0, Scale + 1>>]] }

VARIABLES
  life,                  \* per observer: "unborn", "live" or "destroyed"
  options,               \* per observer: the options its constructor was given
  exceptions,            \* per observer: the exceptions set on exception_state, in order
  thresholds_,           \* per observer: std::vector<double> thresholds_
  observation_targets_,  \* per observer: ElementVector observation_targets_
  queued_entries_,       \* per observer: IntersectionObserverEntrySequence queued_entries_
  backrefs,              \* per target: the observers registered on the element
  alive,                 \* the targets not yet destroyed
  created,               \* per observer: OnIntersectionObserverCreated calls received
  destroyed,             \* per observer: OnIntersectionObserverDestroyed calls received
  task_requests,         \* per observer: QueueIntersectionObserverTask calls since its last Notify
  cb,                    \* the Notify() whose callback is running, or NoFrame
  lastOp,                \* the last completed operation, its result and its outgoing calls
  nextEntry,             \* id of the next entry the geometry engine produces
  appended,              \* per observer: entries queued since its last drain
  handed,                \* per entry id: times it was handed out (TakeRecords result or callback batch)
  first_observed,        \* per observer: live targets in order of first Observe since last removal
  queue_calls,           \* per observer: QueueIntersectionObserverEntry calls since its last Notify
  pass                   \* the UpdateObservationTargets() whose loop is running, or NoPass

vars == <<life, options, exceptions, thresholds_, observation_targets_, queued_entries_,
          backrefs, alive, created, destroyed, task_requests, cb, lastOp, nextEntry,
          appended, handed, first_observed, queue_calls, pass>>


\* ------------------------------------------------------------- collaborators
\* One outgoing call of a method: on an element (api, target, observer), on the
\* task manager (api, observer) or on the script callback (api, batch, observer).
Call(api, target, batch, observer) ==
  [api |-> api, target |-> target, batch |-> batch, observer |-> observer]

\* Element::RegisterIntersectionObserverTarget / UnregisterIntersectionObserverTarget:
\* the element's list of registered observers, kept as a set.
RegisterIntersectionObserverTarget(refs, observer) == refs \cup {observer}

UnregisterIntersectionObserverTarget(refs, observer) == refs \ {observer}

\* The elements' registration lists after the calls of one method, in call order.
RECURSIVE BackrefsAfter(_, _)
BackrefsAfter(calls, refs) ==
  IF calls = <<>> THEN refs
  ELSE LET c == Head(calls)
           next ==
             IF c.api = "RegisterIntersectionObserverTarget"
             THEN [refs EXCEPT ![c.target] = RegisterIntersectionObserverTarget(@, c.observer)]
             ELSE IF c.api = "UnregisterIntersectionObserverTarget"
             THEN [refs EXCEPT ![c.target] = UnregisterIntersectionObserverTarget(@, c.observer)]
             ELSE refs
       IN  BackrefsAfter(Tail(calls), next)

\* How many of the calls are calls of api.
RECURSIVE CountCalls(_, _)
CountCalls(calls, api) ==
  IF calls = <<>> THEN 0
  ELSE (IF Head(calls).api = api THEN 1 ELSE 0) + CountCalls(Tail(calls), api)

\* ------------------------------------------------------------ construction
\* "*it < 0 || *it > 1" on a ratio in units of 1/Scale.
OutOfRange(r) == r < 0 \/ r > Scale

\* The loop skipping an out-of-range ratio instead of returning.
RECURSIVE ValidateAndPush_SkipsBad(_, _, _)
ValidateAndPush_SkipsBad(values, i, pushed) ==
  IF i > Len(values) THEN [range_error |-> FALSE, thresholds_ |-> pushed]
  ELSE IF values[i] < 0 \/ values[i] > Scale
       THEN ValidateAndPush_SkipsBad(values, i + 1, pushed)
  ELSE ValidateAndPush_SkipsBad(values, i + 1, Append(pushed, values[i]))

\* The loop over a threshold sequence: push each ratio onto thresholds_ until one
\* is out of range; the ratios pushed before the return stay in thresholds_.
RECURSIVE ValidateAndPush(_, _, _)
ValidateAndPush(values, i, pushed) ==
  IF i > Len(values) THEN [range_error |-> FALSE, thresholds_ |-> pushed]
  ELSE IF OutOfRange(values[i]) THEN [range_error |-> TRUE, thresholds_ |-> pushed]
  ELSE ValidateAndPush(values, i + 1, Append(pushed, values[i]))

\* sort(thresholds_.begin(), thresholds_.end()): ascending, by insertion.
RECURSIVE InsertSorted(_, _)
InsertSorted(s, x) ==
  IF s = <<>> THEN <<x>>
  ELSE IF x < Head(s) THEN <<x>> \o s
  ELSE <<Head(s)>> \o InsertSorted(Tail(s), x)

\* The constructor without the sort.
SortAscending_Skipped(s) == s

RECURSIVE SortAscending(_)
SortAscending(s) ==
  IF s = <<>> THEN <<>> ELSE InsertSorted(SortAscending(Tail(s)), Head(s))

\* Step 4 of the constructor: a margin the parser rejects sets SyntaxError on
\* exception_state; the function does not return there.
ParseRootMargin(opts) ==
  IF opts.margin_parses THEN <<>> ELSE <<"SyntaxError">>

\* Steps 4 to 9 and the registration with the task manager.  The result holds
\* thresholds_, the exceptions set on exception_state in order, and the call
\* OnIntersectionObserverCreated(this) when the function reaches it.
InitIntersectionObserverInternal(this, opts) ==
  LET syntax == ParseRootMargin(opts)
      threshold == opts.threshold
      pushed ==
        IF threshold.kind = "double"
        THEN IF OutOfRange(threshold.value[1])
             THEN [range_error |-> TRUE, thresholds_ |-> <<>>]
             ELSE [range_error |-> FALSE, thresholds_ |-> <<threshold.value[1]>>]
        ELSE LET scanned == ValidateAndPush(threshold.value, 1, <<>>)
             IN  IF scanned.range_error THEN scanned
                 ELSE [range_error |-> FALSE,
                       thresholds_ |-> SortAscending(scanned.thresholds_)]
  IN  IF pushed.range_error
      THEN [thresholds_ |-> pushed.thresholds_,
            exceptions |-> syntax \o <<"RangeError">>,
            calls |-> <<>>]
      ELSE [thresholds_ |-> IF pushed.thresholds_ = <<>> THEN <<0>> ELSE pushed.thresholds_,
            exceptions |-> syntax,
            calls |-> <<Call("OnIntersectionObserverCreated", None, <<>>, this)>>]

\* ------------------------------------------------------- observation targets
Erase(v, i) == SubSeq(v, 1, i - 1) \o SubSeq(v, i + 1, Len(v))

\* The scan of TrackObservationTarget from iterator position i.
RECURSIVE TrackFrom(_, _, _)
TrackFrom(v, i, target) ==
  IF i > Len(v) THEN Append(v, target)
  ELSE IF v[i] = NULL THEN TrackFrom(Erase(v, i), i, target)
  ELSE IF v[i] = target THEN v
  ELSE TrackFrom(v, i + 1, target)

\* TrackObservationTarget without the scan for the target.
TrackObservationTarget_NoScan(targets, target) == Append(targets, target)

\* TrackObservationTarget erasing every null slot, also those after the target.
TrackObservationTarget_PrunesAll(targets, target) ==
  TrackFrom(SelectSeq(targets, LAMBDA x : x # NULL), 1, target)

TrackObservationTarget(targets, target) == TrackFrom(targets, 1, target)

\* The scan of UntrackObservationTarget from iterator position i.
RECURSIVE UntrackFrom(_, _, _)
UntrackFrom(v, i, target) ==
  IF i > Len(v) THEN v
  ELSE IF v[i] = NULL THEN UntrackFrom(Erase(v, i), i, target)
  ELSE IF v[i] = target THEN Erase(v, i)
  ELSE UntrackFrom(v, i + 1, target)

\* UntrackObservationTarget leaving the vector as it is.
UntrackObservationTarget_KeepsTarget(targets, target) == targets

UntrackObservationTarget(targets, target) == UntrackFrom(targets, 1, target)

\* ------------------------------------------------------------------ methods
\* Each method is a function of the fields it reads; its result holds the
\* fields it writes, what it returns and the calls it makes, in order.
\* Observe returning before the registration when the target is already tracked.
Observe_RegistersOnlyNew(this, targets, target) ==
  IF target = NULL \/ target \in {targets[i] : i \in 1..Len(targets)}
  THEN [observation_targets_ |-> targets, calls |-> <<>>]
  ELSE [observation_targets_ |-> TrackObservationTarget(targets, target),
        calls |-> <<Call("RegisterIntersectionObserverTarget", target, <<>>, this)>>]

\* Observe and Unobserve return at once on a null target.
Observe(this, targets, target) ==
  IF target = NULL
  THEN [observation_targets_ |-> targets, calls |-> <<>>]
  ELSE [observation_targets_ |-> TrackObservationTarget(targets, target),
        calls |-> <<Call("RegisterIntersectionObserverTarget", target, <<>>, this)>>]

\* Unobserve leaving the element alone when the target is not tracked.
Unobserve_UnregistersOnlyTracked(this, targets, target) ==
  IF target = NULL \/ target \notin {targets[i] : i \in 1..Len(targets)}
  THEN [observation_targets_ |-> targets, calls |-> <<>>]
  ELSE [observation_targets_ |-> UntrackObservationTarget(targets, target),
        calls |-> <<Call("UnregisterIntersectionObserverTarget", target, <<>>, this)>>]

Unobserve(this, targets, target) ==
  IF target = NULL
  THEN [observation_targets_ |-> targets, calls |-> <<>>]
  ELSE [observation_targets_ |-> UntrackObservationTarget(targets, target),
        calls |-> <<Call("UnregisterIntersectionObserverTarget", target, <<>>, this)>>]

\* The loop of Disconnect over observation_targets_: one unregistration per
\* slot that is not NULL.
RECURSIVE UnregisterAll(_, _)
UnregisterAll(this, targets) ==
  IF targets = <<>> THEN <<>>
  ELSE (IF Head(targets) # NULL
        THEN <<Call("UnregisterIntersectionObserverTarget", Head(targets), <<>>, this)>>
        ELSE <<>>) \o UnregisterAll(this, Tail(targets))

\* Disconnect without queued_entries_.clear().
Disconnect_KeepsQueue(this, targets, queue) ==
  [observation_targets_ |-> <<>>,
   queued_entries_ |-> queue,
   calls |-> UnregisterAll(this, targets)]

\* Disconnect clearing its own fields without a call to any target.
Disconnect_NoUnregister(this, targets, queue) ==
  [observation_targets_ |-> <<>>, queued_entries_ |-> <<>>, calls |-> <<>>]

Disconnect(this, targets, queue) ==
  [observation_targets_ |-> <<>>,
   queued_entries_ |-> <<>>,
   calls |-> UnregisterAll(this, targets)]

\* TakeRecords returning a copy and leaving the queue as it is.
TakeRecords_Copy(queue) ==
  [ret |-> queue, queued_entries_ |-> queue]

\* queued_entries.swap(queued_entries_) with an empty local, which is returned.
TakeRecords(queue) ==
  [ret |-> queue, queued_entries_ |-> <<>>]

\* QueueIntersectionObserverEntry asking for a task only for the first entry of a batch.
QueueIntersectionObserverEntry_Coalescing(this, queue, entry) ==
  [queued_entries_ |-> Append(queue, entry),
   calls |-> IF queue = <<>>
             THEN <<Call("QueueIntersectionObserverTask", None, <<>>, this)>>
             ELSE <<>>]

QueueIntersectionObserverEntry(this, queue, entry) ==
  [queued_entries_ |-> Append(queue, entry),
   calls |-> <<Call("QueueIntersectionObserverTask", None, <<>>, this)>>]

\* Notify handing the callback the queue in reverse order.
RECURSIVE Reversed(_)
Reversed(q) == IF q = <<>> THEN <<>> ELSE Append(Reversed(Tail(q)), Head(q))

Notify_ReversedBatch(this, queue) ==
  IF queue = <<>>
  THEN [returned |-> TRUE, queued_entries_ |-> queue, calls |-> <<>>]
  ELSE [returned |-> FALSE,
        queued_entries_ |-> <<>>,
        calls |-> <<Call("RunCallback", None, Reversed(queue), this)>>]

\* Notify without the check for an empty queue.
Notify_NoEmptyCheck(this, queue) ==
  [returned |-> FALSE,
   queued_entries_ |-> <<>>,
   calls |-> <<Call("RunCallback", None, queue, this)>>]

\* Notify handing the queue to the callback without taking it.
Notify_BatchLeftQueued(this, queue) ==
  IF queue = <<>>
  THEN [returned |-> TRUE, queued_entries_ |-> queue, calls |-> <<>>]
  ELSE [returned |-> FALSE,
        queued_entries_ |-> queue,
        calls |-> <<Call("RunCallback", None, queue, this)>>]

\* Notify up to and including the invocation of the callback.  returned says
\* that Notify returned (true) without running the callback.
Notify(this, queue) ==
  IF queue = <<>>
  THEN [returned |-> TRUE, queued_entries_ |-> queue, calls |-> <<>>]
  ELSE LET taken == TakeRecords(queue)
       IN  [returned |-> FALSE,
            queued_entries_ |-> taken.queued_entries_,
            calls |-> <<Call("RunCallback", None, taken.ret, this)>>]

\* RunCallback reporting success whatever the callback did.
RunCallbackResult_IgnoresException(exception) == TRUE

\* ScriptCallback::RunCallback's result, which Notify returns.
RunCallbackResult(exception) == ~exception

\* ~IntersectionObserver().
Destructor(this) ==
  [calls |-> <<Call("OnIntersectionObserverDestroyed", None, <<>>, this)>>]

\* -------------------------------------------------------------------- state
Range(s) == {s[i] : i \in 1..Len(s)}

LiveSlots(v) == SelectSeq(v, LAMBDA x : x # NULL)

Without(v, x) == SelectSeq(v, LAMBDA y : y # x)

Entries == 1..MaxEntries

\* The record of a completed operation: its name, its receiver, the records it
\* returned (TakeRecords), its boolean result (Notify) and its outgoing calls.
Op(op, obs, records, ok, calls) ==
  [op |-> op, obs |-> obs, records |-> records, ok |-> ok, calls |-> calls,
   raised |-> FALSE]

NoFrame == [obs |-> None, calls |-> <<>>]

\* handed after the entries of batch were handed out once more.
HandOut(h, batch) ==
  [e \in Entries |-> h[e] + Cardinality({i \in 1..Len(batch) : batch[i].id = e})]

\* handed after every batch the callback invocations among calls received.
RECURSIVE HandOutCalls(_, _)
HandOutCalls(h, calls) ==
  IF calls = <<>> THEN h
  ELSE HandOutCalls(IF Head(calls).api = "RunCallback" THEN HandOut(h, Head(calls).batch) ELSE h,
                    Tail(calls))

\* No UpdateObservationTargets() is running.  A running one is inside the call
\* on a target and has: it, the slot the loop is at; end, the slot the end
\* iterator was taken at; valid, whether both iterators are still valid;
\* crashed; visited, the targets asked to update so far; held, every element the vector held since the loop began;
\* tracked and whole, the targets tracked at some moment and at every moment
\* since the loop began.
NoPass ==
  [obs |-> None, it |-> 0, end |-> 0, valid |-> TRUE, crashed |-> FALSE,
   finished |-> FALSE, visited |-> <<>>, held |-> {}, tracked |-> {}, whole |-> {}]

\* The running loop of observer o after a method left its vector as after and
\* its live targets as live: an erase, push_back or clear invalidates the
\* loop's iterators.
PassAfter(o, before, after, live) ==
  IF pass.obs # o THEN pass
  ELSE [pass EXCEPT !.valid = @ /\ after = before,
                    !.held = @ \cup (Range(after) \ {NULL}),
                    !.tracked = @ \cup Range(live),
                    !.whole = @ \cap Range(live)]

Init ==
  /\ life = [o \in Observers |-> "unborn"]
  /\ options = [o \in Observers |-> ValidOptions]
  /\ exceptions = [o \in Observers |-> <<>>]
  /\ thresholds_ = [o \in Observers |-> <<>>]
  /\ observation_targets_ = [o \in Observers |-> <<>>]
  /\ queued_entries_ = [o \in Observers |-> <<>>]
  /\ backrefs = [t \in Targets |-> {}]
  /\ alive = Targets
  /\ created = [o \in Observers |-> 0]
  /\ destroyed = [o \in Observers |-> 0]
  /\ task_requests = [o \in Observers |-> 0]
  /\ cb = NoFrame
  /\ lastOp = Op("none", None, <<>>, TRUE, <<>>)
  /\ nextEntry = 1
  /\ appended = [o \in Observers |-> <<>>]
  /\ handed = [e \in Entries |-> 0]
  /\ first_observed = [o \in Observers |-> <<>>]
  /\ queue_calls = [o \in Observers |-> 0]
  /\ pass = NoPass

\* new IntersectionObserver(callback, options): either constructor.
Construct(o, opts) ==
  /\ life[o] = "unborn"
  /\ LET r == InitIntersectionObserverInternal(o, opts)
     IN  /\ thresholds_' = [thresholds_ EXCEPT ![o] = r.thresholds_]
         /\ exceptions' = [exceptions EXCEPT ![o] = r.exceptions]
         /\ created' = [created EXCEPT ![o] = @ + CountCalls(r.calls, "OnIntersectionObserverCreated")]
         /\ lastOp' = Op("Construct", o, <<>>, r.exceptions = <<>>, r.calls)
  /\ life' = [life EXCEPT ![o] = "live"]
  /\ options' = [options EXCEPT ![o] = opts]
  /\ UNCHANGED <<pass, observation_targets_, queued_entries_, backrefs, alive, destroyed,
                 task_requests, cb, nextEntry, appended, handed, first_observed, queue_calls>>

\* observer.observe(target), from script: at top level or inside a callback.
ObserveCall(o, t) ==
  /\ life[o] = "live"
  /\ t \in alive \cup {NULL}
  /\ LET r == Observe(o, observation_targets_[o], t)
     IN  /\ observation_targets_' = [observation_targets_ EXCEPT ![o] = r.observation_targets_]
         /\ backrefs' = BackrefsAfter(r.calls, backrefs)
         /\ lastOp' = Op("Observe", o, <<>>, TRUE, r.calls)
  /\ first_observed' = [first_observed EXCEPT ![o] = IF t = NULL \/ t \in Range(@) THEN @ ELSE Append(@, t)]
  /\ pass' = PassAfter(o, observation_targets_[o], observation_targets_'[o], first_observed'[o])
  /\ UNCHANGED <<life, options, exceptions, thresholds_, queued_entries_, alive, created,
                 destroyed, task_requests, cb, nextEntry, appended, handed, queue_calls>>

\* observer.unobserve(target), from script.
UnobserveCall(o, t) ==
  /\ life[o] = "live"
  /\ t \in alive \cup {NULL}
  /\ LET r == Unobserve(o, observation_targets_[o], t)
     IN  /\ observation_targets_' = [observation_targets_ EXCEPT ![o] = r.observation_targets_]
         /\ backrefs' = BackrefsAfter(r.calls, backrefs)
         /\ lastOp' = Op("Unobserve", o, <<>>, TRUE, r.calls)
  /\ first_observed' = [first_observed EXCEPT ![o] = Without(@, t)]
  /\ pass' = PassAfter(o, observation_targets_[o], observation_targets_'[o], first_observed'[o])
  /\ UNCHANGED <<life, options, exceptions, thresholds_, queued_entries_, alive, created,
                 destroyed, task_requests, cb, nextEntry, appended, handed, queue_calls>>

\* observer.disconnect(), from script.
DisconnectCall(o) ==
  /\ life[o] = "live"
  /\ LET r == Disconnect(o, observation_targets_[o], queued_entries_[o])
     IN  /\ observation_targets_' = [observation_targets_ EXCEPT ![o] = r.observation_targets_]
         /\ queued_entries_' = [queued_entries_ EXCEPT ![o] = r.queued_entries_]
         /\ backrefs' = BackrefsAfter(r.calls, backrefs)
         /\ lastOp' = Op("Disconnect", o, <<>>, TRUE, r.calls)
  /\ first_observed' = [first_observed EXCEPT ![o] = <<>>]
  /\ appended' = [appended EXCEPT ![o] = <<>>]
  /\ pass' = PassAfter(o, observation_targets_[o], observation_targets_'[o], first_observed'[o])
  /\ UNCHANGED <<life, options, exceptions, thresholds_, alive, created, destroyed,
                 task_requests, cb, nextEntry, handed, queue_calls>>

\* observer.takeRecords(), from script.
TakeRecordsCall(o) ==
  /\ life[o] = "live"
  /\ LET r == TakeRecords(queued_entries_[o])
     IN  /\ queued_entries_' = [queued_entries_ EXCEPT ![o] = r.queued_entries_]
         /\ lastOp' = Op("TakeRecords", o, r.ret, TRUE, <<>>)
         /\ handed' = HandOut(handed, r.ret)
  /\ appended' = [appended EXCEPT ![o] = <<>>]
  /\ UNCHANGED <<pass, life, options, exceptions, thresholds_, observation_targets_, backrefs,
                 alive, created, destroyed, task_requests, cb, nextEntry, first_observed,
                 queue_calls>>

\* The geometry engine queues a new entry on the observer.
QueueEntryCall(o) ==
  /\ life[o] = "live"
  /\ cb = NoFrame
  /\ nextEntry <= MaxEntries
  /\ LET entry == [id |-> nextEntry]
         r == QueueIntersectionObserverEntry(o, queued_entries_[o], entry)
     IN  /\ queued_entries_' = [queued_entries_ EXCEPT ![o] = r.queued_entries_]
         /\ task_requests' = [task_requests EXCEPT
                                ![o] = @ + CountCalls(r.calls, "QueueIntersectionObserverTask")]
         /\ lastOp' = Op("QueueIntersectionObserverEntry", o, <<>>, TRUE, r.calls)
         /\ appended' = [appended EXCEPT ![o] = Append(@, entry)]
  /\ nextEntry' = nextEntry + 1
  /\ queue_calls' = [queue_calls EXCEPT ![o] = @ + 1]
  /\ UNCHANGED <<pass, life, options, exceptions, thresholds_, observation_targets_, backrefs,
                 alive, created, destroyed, cb, handed, first_observed>>

\* The geometry engine queues a new entry on the observer while a callback is
\* running (the script forced a synchronous recomputation).
NestedQueueEntryCall(o) ==
  /\ life[o] = "live"
  /\ cb # NoFrame
  /\ nextEntry <= MaxEntries
  /\ LET entry == [id |-> nextEntry]
         r == QueueIntersectionObserverEntry(o, queued_entries_[o], entry)
     IN  /\ queued_entries_' = [queued_entries_ EXCEPT ![o] = r.queued_entries_]
         /\ task_requests' = [task_requests EXCEPT
                                ![o] = @ + CountCalls(r.calls, "QueueIntersectionObserverTask")]
         /\ lastOp' = Op("QueueIntersectionObserverEntry", o, <<>>, TRUE, r.calls)
         /\ appended' = [appended EXCEPT ![o] = Append(@, entry)]
  /\ nextEntry' = nextEntry + 1
  /\ queue_calls' = [queue_calls EXCEPT ![o] = @ + 1]
  /\ UNCHANGED <<pass, life, options, exceptions, thresholds_, observation_targets_, backrefs,
                 alive, created, destroyed, cb, handed, first_observed>>

\* The task manager's delivery pass reaches the observer: Notify() up to its
\* return (empty queue) or up to the start of the callback.
NotifyCall(o) ==
  /\ life[o] = "live"
  /\ cb = NoFrame
  /\ LET r == Notify(o, queued_entries_[o])
     IN  /\ queued_entries_' = [queued_entries_ EXCEPT ![o] = r.queued_entries_]
         /\ handed' = HandOutCalls(handed, r.calls)
         /\ IF r.returned
            THEN /\ lastOp' = Op("Notify", o, <<>>, TRUE, r.calls)
                 /\ cb' = cb
            ELSE /\ lastOp' = lastOp
                 /\ cb' = [obs |-> o, calls |-> r.calls]
  /\ appended' = [appended EXCEPT ![o] = <<>>]
  /\ task_requests' = [task_requests EXCEPT ![o] = 0]
  /\ queue_calls' = [queue_calls EXCEPT ![o] = 0]
  /\ UNCHANGED <<pass, life, options, exceptions, thresholds_, observation_targets_, backrefs,
                 alive, created, destroyed, nextEntry, first_observed>>

\* The callback returns, with or without an exception, and Notify() returns.
CallbackReturn(exception) ==
  /\ cb # NoFrame
  /\ lastOp' = [Op("Notify", cb.obs, <<>>, RunCallbackResult(exception), cb.calls)
                  EXCEPT !.raised = exception]
  /\ cb' = NoFrame
  /\ UNCHANGED <<pass, life, options, exceptions, thresholds_, observation_targets_,
                 queued_entries_, backrefs, alive, created, destroyed, task_requests,
                 nextEntry, appended, handed, first_observed, queue_calls>>

\* The last reference to the observer is released.  Notify() holds one while the
\* callback runs, and so does the caller of UpdateObservationTargets().  The object's members are destroyed with it.
DestroyCall(o) ==
  /\ life[o] = "live"
  /\ cb.obs # o
  /\ pass.obs # o
  /\ LET r == Destructor(o)
     IN  /\ destroyed' = [destroyed EXCEPT
                            ![o] = @ + CountCalls(r.calls, "OnIntersectionObserverDestroyed")]
         /\ lastOp' = Op("Destructor", o, <<>>, TRUE, r.calls)
  /\ life' = [life EXCEPT ![o] = "destroyed"]
  /\ thresholds_' = [thresholds_ EXCEPT ![o] = <<>>]
  /\ observation_targets_' = [observation_targets_ EXCEPT ![o] = <<>>]
  /\ queued_entries_' = [queued_entries_ EXCEPT ![o] = <<>>]
  /\ appended' = [appended EXCEPT ![o] = <<>>]
  /\ first_observed' = [first_observed EXCEPT ![o] = <<>>]
  /\ task_requests' = [task_requests EXCEPT ![o] = 0]
  /\ queue_calls' = [queue_calls EXCEPT ![o] = 0]
  /\ UNCHANGED <<pass, options, exceptions, backrefs, alive, created, cb, nextEntry, handed>>

\* The loop after target->UpdateIntersectionObservationsForTarget(this) was
\* called on t: it is inside that call.
Visit(p, t) == [p EXCEPT !.it = @ + 1, !.visited = Append(@, t)]

\* The loop of UpdateObservationTargets() from the end of one turn on: the
\* states in which it is inside its next call, has finished, or has faulted.
\* The iterator moves on and is compared with end; the target in its slot is
\* asked to update.  A null slot is called through (undefined: the call
\* faults, or returns having done nothing and the loop goes on).  With
\* invalidated iterators the turn is undefined: it faults, asks an element the
\* vector held at some time since the loop began, or finds the end.
RECURSIVE Turns(_, _)
Turns(p, v) ==
  IF p.valid
  THEN IF p.it + 1 = p.end THEN {[p EXCEPT !.finished = TRUE]}
       ELSE IF v[p.it + 1] # NULL THEN {Visit(p, v[p.it + 1])}
       ELSE {[p EXCEPT !.crashed = TRUE]} \cup Turns([p EXCEPT !.it = @ + 1], v)
  ELSE {[p EXCEPT !.crashed = TRUE], [p EXCEPT !.finished = TRUE]}
         \cup {Visit(p, t) : t \in IF Len(p.visited) < MaxVisits THEN p.held ELSE {}}

\* The calls a finished loop made, in order.
UpdateCalls(o, visited) ==
  [i \in 1..Len(visited) |->
     Call("UpdateIntersectionObservationsForTarget", visited[i], <<>>, o)]

\* The loop of o goes on to q.
UpdateTo(o, q) ==
  /\ IF q.finished
     THEN /\ pass' = NoPass
          /\ lastOp' = Op("UpdateObservationTargets", o, <<>>, TRUE, UpdateCalls(o, q.visited))
     ELSE /\ pass' = q
          /\ lastOp' = lastOp
  /\ UNCHANGED <<life, options, exceptions, thresholds_, observation_targets_,
                 queued_entries_, backrefs, alive, created, destroyed, task_requests, cb,
                 nextEntry, appended, handed, first_observed, queue_calls>>

\* The update pass of the document reaches the observer:
\* UpdateObservationTargets() takes begin() and end() of observation_targets_
\* and runs up to its first call, or to its end.
UpdateBegin(o) ==
  /\ life[o] = "live"
  /\ cb = NoFrame
  /\ pass = NoPass
  /\ \E q \in Turns([NoPass EXCEPT !.obs = o,
                                  !.end = Len(observation_targets_[o]) + 1,
                                  !.held = Range(observation_targets_[o]) \ {NULL},
                                  !.tracked = Range(first_observed[o]),
                                  !.whole = Range(first_observed[o])],
                    observation_targets_[o]) :
       UpdateTo(o, q)

\* The call on a target returns and the loop of UpdateObservationTargets()
\* runs up to its next call, or to its end.
UpdateStep(o) ==
  /\ pass.obs = o
  /\ ~pass.crashed
  /\ \E q \in Turns(pass, observation_targets_[o]) : UpdateTo(o, q)

\* An element goes away: every slot that referred to it is left NULL.
TargetDestroyed(t) ==
  /\ t \in alive
  /\ alive' = alive \ {t}
  /\ observation_targets_' =
       [o \in Observers |->
          [i \in 1..Len(observation_targets_[o]) |->
             IF observation_targets_[o][i] = t THEN NULL ELSE observation_targets_[o][i]]]
  /\ backrefs' = [backrefs EXCEPT ![t] = {}]
  /\ first_observed' = [o \in Observers |-> Without(first_observed[o], t)]
  /\ lastOp' = Op("TargetDestroyed", None, <<>>, TRUE, <<>>)
  /\ pass' = [pass EXCEPT !.whole = @ \ {t}]
  /\ UNCHANGED <<life, options, exceptions, thresholds_, queued_entries_, created,
                 destroyed, task_requests, cb, nextEntry, appended, handed, queue_calls>>

\* The observer the lifecycle specification follows.  Observers share nothing
\* but the elements' registration lists.
Solo == {"o1"}

Next ==
  \/ \E o \in Solo, opts \in LifecycleOptions : Construct(o, opts)
  \/ \E o \in Solo, t \in Targets \cup {NULL} : ObserveCall(o, t)
  \/ \E o \in Solo, t \in Targets \cup {NULL} : UnobserveCall(o, t)
  \/ \E o \in Solo : DisconnectCall(o)
  \/ \E o \in Solo : TakeRecordsCall(o)
  \/ \E o \in Solo : QueueEntryCall(o)
  \/ \E o \in Solo : NotifyCall(o)
  \/ \E exception \in BOOLEAN : CallbackReturn(exception)
  \/ \E o \in Solo : DestroyCall(o)
  \/ \E t \in Targets : TargetDestroyed(t)

Spec == Init /\ [][Next]_vars

\* Construction alone, over every option the bounds allow.
NextConstruct ==
  \/ \E o \in Solo, opts \in AllOptions : Construct(o, opts)
  \/ \E o \in Solo : DestroyCall(o)

SpecConstruct == Init /\ [][NextConstruct]_vars

\* The delivery sweep over two observers: entries are queued, also while a
\* callback runs, and the callbacks drain or disconnect either observer.
NextSweep ==
  \/ \E o \in Observers : Construct(o, ValidOptions)
  \/ \E o \in Observers : QueueEntryCall(o)
  \/ \E o \in Observers : NestedQueueEntryCall(o)
  \/ \E o \in Observers : NotifyCall(o)
  \/ \E exception \in BOOLEAN : CallbackReturn(exception)
  \/ \E o \in Observers : TakeRecordsCall(o)
  \/ \E o \in Observers : DisconnectCall(o)

SpecSweep == Init /\ [][NextSweep]_vars

\* Registration alone, on two observers: targets are observed, unobserved and
\* destroyed, observers disconnect and are released.
NextRegistry ==
  \/ \E o \in Observers : Construct(o, ValidOptions)
  \/ \E o \in Observers, t \in Targets \cup {NULL} : ObserveCall(o, t)
  \/ \E o \in Observers, t \in Targets \cup {NULL} : UnobserveCall(o, t)
  \/ \E o \in Observers : DisconnectCall(o)
  \/ \E o \in Observers : DestroyCall(o)
  \/ \E t \in Targets : TargetDestroyed(t)

SpecRegistry == Init /\ [][NextRegistry]_vars

\* The process has not faulted: after a fault nothing more runs.
Running == ~pass.crashed

\* The update pass on one observer, with the methods that change its targets
\* called between passes and from within the update of a target.
NextUpdate ==
  \/ \E o \in Solo : Construct(o, ValidOptions)
  \/ \E o \in Solo, t \in Targets \cup {NULL} : Running /\ ObserveCall(o, t)
  \/ \E o \in Solo, t \in Targets \cup {NULL} : Running /\ UnobserveCall(o, t)
  \/ \E o \in Solo : Running /\ DisconnectCall(o)
  \/ \E t \in Targets : Running /\ TargetDestroyed(t)
  \/ \E o \in Solo : UpdateBegin(o)
  \/ \E o \in Solo : UpdateStep(o)

SpecUpdate == Init /\ [][NextUpdate]_vars

\* ------------------------------------------------------------------- claims
\* This step enters Notify() on o: it either starts o's callback or returns at once.
NotifyStepOf(o) ==
  /\ cb = NoFrame
  /\ \/ cb'.obs = o
     \/ cb' = NoFrame /\ lastOp' # lastOp /\ lastOp'.op = "Notify" /\ lastOp'.obs = o

\* This step is a call of the script-exposed method op on o.
MethodStepOf(op, o) ==
  lastOp' # lastOp /\ lastOp'.op = op /\ lastOp'.obs = o

\* C1: after n >= 1 entries were queued on an observer with no drain in
\* between, the next Notify() invokes the callback exactly once, with exactly
\* those entries in the order they were queued and the observer itself as
\* second argument; a TakeRecords() right after that Notify() returns nothing.
C1_NotifyDeliversQueuedBatch ==
  [][\A o \in Observers :
       /\ (appended[o] # <<>> /\ NotifyStepOf(o)) =>
            /\ cb' = [obs |-> o, calls |-> <<Call("RunCallback", None, appended[o], o)>>]
            /\ queued_entries_'[o] = <<>>
       /\ (cb # NoFrame /\ cb.obs = o /\ cb' = NoFrame) =>
            /\ lastOp'.op = "Notify" /\ lastOp'.obs = o
            /\ lastOp'.calls = cb.calls
            /\ queued_entries_'[o] = <<>>
       /\ (cb = NoFrame /\ lastOp.op = "Notify" /\ lastOp.obs = o /\ lastOp.calls # <<>>
             /\ MethodStepOf("TakeRecords", o)) =>
            lastOp'.records = <<>>]_vars

\* A Notify() that delivered a batch of two or more entries has returned.
C1_Witness ==
  /\ cb = NoFrame
  /\ lastOp.op = "Notify"
  /\ lastOp.calls # <<>>
  /\ Len(lastOp.calls[1].batch) >= 2
  /\ lastOp.calls[1].batch[1].id < lastOp.calls[1].batch[2].id

\* C2: a drain (TakeRecords(), called by script or from Notify()) hands out
\* exactly the entries in the queue at the call, in arrival order, and leaves
\* the queue empty; no entry is ever handed out twice, whether by TakeRecords
\* results or callback batches; a second TakeRecords() with no entry queued in
\* between returns nothing.
C2_DrainExactlyOnce ==
  [][\A o \in Observers :
       /\ MethodStepOf("TakeRecords", o) =>
            /\ lastOp'.records = queued_entries_[o]
            /\ lastOp'.records = appended[o]
            /\ queued_entries_'[o] = <<>>
       /\ (cb = NoFrame /\ cb'.obs = o) =>
            /\ Len(cb'.calls) = 1
            /\ cb'.calls[1].batch = queued_entries_[o]
            /\ queued_entries_'[o] = <<>>
       /\ (lastOp.op = "TakeRecords" /\ lastOp.obs = o /\ MethodStepOf("TakeRecords", o)) =>
            lastOp'.records = <<>>
       /\ \A e \in Entries : handed'[e] <= 1]_vars

\* A TakeRecords() returned two entries after another entry went to the callback.
C2_Witness ==
  /\ lastOp.op = "TakeRecords"
  /\ Len(lastOp.records) >= 2
  /\ \E e \in Entries : handed[e] = 1 /\ \A i \in 1..Len(lastOp.records) : lastOp.records[i].id # e

\* C3: Notify() on an observer whose queue is empty returns true, does not
\* invoke the callback, and leaves the queue and the tracked targets unchanged.
C3_NotifyOnEmptyQueue ==
  [][\A o \in Observers :
       (queued_entries_[o] = <<>> /\ NotifyStepOf(o)) =>
         /\ cb' = NoFrame
         /\ lastOp'.op = "Notify" /\ lastOp'.obs = o
         /\ lastOp'.ok
         /\ lastOp'.calls = <<>>
         /\ queued_entries_'[o] = queued_entries_[o]
         /\ observation_targets_'[o] = observation_targets_[o]]_vars

\* Notify() returned without a callback on an observer that tracks targets.
C3_Witness ==
  /\ lastOp.op = "Notify"
  /\ lastOp.calls = <<>>
  /\ lastOp.ok
  /\ observation_targets_[lastOp.obs] # <<>>
  /\ queued_entries_[lastOp.obs] = <<>>

\* The targets the calls were made on, in call order.
CallTargets(calls) == [i \in 1..Len(calls) |-> calls[i].target]

\* C4: Disconnect() calls the deregistration API of every currently tracked
\* target, with the observer as argument, and leaves the tracked sequence and
\* the queue empty; a TakeRecords() right after it returns nothing and a
\* Notify() right after it does not invoke the callback.
C4_DisconnectClearsEverything ==
  [][\A o \in Observers :
       /\ MethodStepOf("Disconnect", o) =>
            /\ CallTargets(lastOp'.calls) = LiveSlots(observation_targets_[o])
            /\ \A i \in 1..Len(lastOp'.calls) :
                 /\ lastOp'.calls[i].api = "UnregisterIntersectionObserverTarget"
                 /\ lastOp'.calls[i].observer = o
            /\ observation_targets_'[o] = <<>>
            /\ queued_entries_'[o] = <<>>
       /\ (lastOp.op = "Disconnect" /\ lastOp.obs = o /\ MethodStepOf("TakeRecords", o)) =>
            lastOp'.records = <<>>
       /\ (lastOp.op = "Disconnect" /\ lastOp.obs = o /\ NotifyStepOf(o)) =>
            cb' = NoFrame /\ lastOp'.calls = <<>>]_vars

\* Disconnect() ran on an observer with two or more targets and a pending
\* entry, which was handed to nobody.
C4_Witness ==
  /\ lastOp.op = "Disconnect"
  /\ Len(lastOp.calls) >= 2
  /\ \E e \in Entries : e < nextEntry /\ handed[e] = 0
  /\ queued_entries_[lastOp.obs] = <<>>

\* C5: each target appears at most once among an observer's tracked slots, and
\* the live targets appear in the order of their first Observe() since they
\* were last removed: observing a tracked target again changes nothing.
C5_TrackedOnceInObserveOrder ==
  \A o \in Observers :
    /\ LiveSlots(observation_targets_[o]) = first_observed[o]
    /\ \A i, j \in 1..Len(observation_targets_[o]) :
         (i # j /\ observation_targets_[o][i] # NULL) =>
           observation_targets_[o][i] # observation_targets_[o][j]

\* Observe() was just called on the target in the first of three slots, which
\* was tracked before the others: it stays where it was.
C5_Witness ==
  /\ lastOp.op = "Observe"
  /\ lastOp.calls # <<>>
  /\ Len(observation_targets_[lastOp.obs]) = 3
  /\ observation_targets_[lastOp.obs][1] = lastOp.calls[1].target
  /\ observation_targets_[lastOp.obs] = <<"B", "C", "A">>

\* The ratios the constructor was given, a single ratio as a sequence of one.
ThresholdInput(o) == options[o].threshold.value

InRange(v) == \A i \in 1..Len(v) : v[i] >= 0 /\ v[i] <= Scale

Occurrences(v, r) == Cardinality({i \in 1..Len(v) : v[i] = r})

\* C6: for every threshold input whose ratios are all in [0,1], the stored
\* thresholds are non-empty, ascending and a permutation of the input
\* (duplicates kept); for the empty sequence they are exactly [0.0].
C6_ThresholdsSortedPermutation ==
  \A o \in Observers :
    (life[o] = "live" /\ InRange(ThresholdInput(o))) =>
      LET stored == thresholds_[o]
      IN  /\ stored # <<>>
          /\ \A i \in 1..(Len(stored) - 1) : stored[i] <= stored[i + 1]
          /\ ThresholdInput(o) = <<>> => stored = <<0>>
          /\ ThresholdInput(o) # <<>> =>
               \A r \in RatioInputs : Occurrences(stored, r) = Occurrences(ThresholdInput(o), r)

\* The thresholds [0.5, 0.25, 0.5] were stored as [0.25, 0.5, 0.5].
C6_Witness ==
  \E o \in Observers :
    /\ life[o] = "live"
    /\ options[o].threshold = [kind |-> "sequence", value |-> <<2, 1, 2>>]
    /\ thresholds_[o] = <<1, 2, 2>>

\* C7: when the root margin does not parse, construction fails with a
\* SyntaxError and nothing more is initialized: no threshold is validated or
\* stored and the observer is not registered with the task manager.
C7_SyntaxErrorStopsConstruction ==
  \A o \in Observers :
    (life[o] = "live" /\ ~options[o].margin_parses) =>
      /\ exceptions[o] = <<"SyntaxError">>
      /\ thresholds_[o] = <<>>
      /\ created[o] = 0

\* C8: when a supplied threshold is below 0 or above 1, construction sets a
\* RangeError, returns before the end of the constructor and never registers
\* the observer with the task manager.
C8_RangeErrorStopsConstruction ==
  \A o \in Observers :
    (life[o] # "unborn" /\ ~InRange(ThresholdInput(o))) =>
      /\ exceptions[o] # <<>>
      /\ exceptions[o][Len(exceptions[o])] = "RangeError"
      /\ created[o] = 0
      /\ life[o] = "live" => Len(thresholds_[o]) < Len(ThresholdInput(o))

\* A sequence whose second ratio is above 1.0 was rejected after its first
\* ratio had been pushed.
C8_Witness ==
  \E o \in Observers :
    /\ life[o] = "live"
    /\ options[o].threshold = [kind |-> "sequence", value |-> <<2, Scale + 1>>]
    /\ thresholds_[o] = <<2>>
    /\ exceptions[o] = <<"RangeError">>
    /\ created[o] = 0

\* C9: on an observer whose construction failed with a RangeError, Observe()
\* never tracks a target and never registers the observer on a target.
C9_NoObserveAfterRangeError ==
  \A o \in Observers :
    "RangeError" \in Range(exceptions[o]) =>
      /\ observation_targets_[o] = <<>>
      /\ \A t \in Targets : o \notin backrefs[t]

\* C10 as stated: however many entries are queued on an observer between two
\* delivery passes, exactly one scheduling request reaches the task manager.
C10_OneRequestPerCycle ==
  \A o \in Observers :
    queue_calls[o] >= 1 => task_requests[o] = 1

\* C10 as amended: every QueueIntersectionObserverEntry() call makes one
\* scheduling request, so k calls between two delivery passes make k requests.
C10_OneRequestPerQueuedEntry ==
  \A o \in Observers : task_requests[o] = queue_calls[o]

\* Two or more entries were queued on an observer since its last Notify().
C10_Witness ==
  \E o \in Observers :
    /\ queue_calls[o] >= 2
    /\ Len(queued_entries_[o]) >= 2

\* C11: when a valid observer is destroyed, the task manager is told
\* (OnIntersectionObserverDestroyed) and the observer is deregistered from
\* every target it still tracked: no element's registration list contains a
\* destroyed observer.
C11_DestroyedObserverLeavesNoBackref ==
  \A o \in Observers :
    (life[o] = "destroyed" /\ exceptions[o] = <<>>) =>
      /\ destroyed[o] = 1
      /\ \A t \in Targets : o \notin backrefs[t]

\* C14 as stated: Observe(target) on a target already tracked changes nothing
\* in the tracked sequence and does not call the registration API again.
C14_ReobserveIsNoOp ==
  [][\A o \in Observers, t \in Targets :
       (t \in Range(observation_targets_[o]) /\ ObserveCall(o, t)) =>
         /\ observation_targets_'[o] = observation_targets_[o]
         /\ lastOp'.calls = <<>>]_vars

\* C14 as amended: every Observe(target) calls the registration API of the
\* target once, tracked or not; on a tracked target the live slots stay as they
\* are, on a new target it is appended after them.
C14_ObserveAlwaysRegisters ==
  [][\A o \in Observers, t \in Targets :
       ObserveCall(o, t) =>
         /\ lastOp'.calls = <<Call("RegisterIntersectionObserverTarget", t, <<>>, o)>>
         /\ o \in backrefs'[t]
         /\ LiveSlots(observation_targets_'[o]) =
              IF t \in Range(observation_targets_[o])
              THEN LiveSlots(observation_targets_[o])
              ELSE Append(LiveSlots(observation_targets_[o]), t)]_vars

\* Observe() was just called again on the first of two tracked targets.
C14_Witness ==
  /\ lastOp.op = "Observe"
  /\ lastOp.calls # <<>>
  /\ lastOp.calls[1].target = "A"
  /\ observation_targets_[lastOp.obs] = <<"A", "B">>
  /\ lastOp.obs \in backrefs["A"]

\* C15 as stated: Unobserve(target) on a target that is not tracked changes
\* neither the tracked sequence nor the queue and does not call the
\* deregistration API; on a tracked target it removes it and calls the API.
C15_UnobserveUntrackedIsNoOp ==
  [][\A o \in Observers, t \in Targets :
       UnobserveCall(o, t) =>
         IF t \in Range(observation_targets_[o])
         THEN /\ t \notin Range(observation_targets_'[o])
              /\ lastOp'.calls = <<Call("UnregisterIntersectionObserverTarget", t, <<>>, o)>>
         ELSE /\ observation_targets_'[o] = observation_targets_[o]
              /\ queued_entries_'[o] = queued_entries_[o]
              /\ lastOp'.calls = <<>>]_vars

\* C15 as amended: every Unobserve(target) calls the deregistration API of the
\* target once, tracked or not; a tracked target is removed; on an untracked
\* target the live slots and the queue stay as they are.
C15_UnobserveAlwaysUnregisters ==
  [][\A o \in Observers, t \in Targets :
       UnobserveCall(o, t) =>
         /\ lastOp'.calls = <<Call("UnregisterIntersectionObserverTarget", t, <<>>, o)>>
         /\ o \notin backrefs'[t]
         /\ t \notin Range(observation_targets_'[o])
         /\ LiveSlots(observation_targets_'[o]) = Without(LiveSlots(observation_targets_[o]), t)
         /\ queued_entries_'[o] = queued_entries_[o]]_vars

\* Unobserve() was just called on a target the observer did not track, with
\* another target tracked and an entry queued.
C15_Witness ==
  /\ lastOp.op = "Unobserve"
  /\ lastOp.calls # <<>>
  /\ lastOp.calls[1].target = "B"
  /\ observation_targets_[lastOp.obs] = <<"A">>
  /\ first_observed[lastOp.obs] = <<"A">>
  /\ queued_entries_[lastOp.obs] # <<>>

\* C18: over every observer lifetime, failed constructions included, the task
\* manager hears OnIntersectionObserverDestroyed for an observer only after
\* OnIntersectionObserverCreated for it, and each at most once.
C18_CreatedBeforeDestroyed ==
  \A o \in Observers :
    /\ created[o] <= 1
    /\ destroyed[o] <= 1
    /\ destroyed[o] <= created[o]

\* The position of the first slot holding target, Len(v) + 1 when none does.
FirstIndex(v, target) ==
  IF \E i \in 1..Len(v) : v[i] = target
  THEN CHOOSE i \in 1..Len(v) : v[i] = target /\ \A j \in 1..(i - 1) : v[j] # target
  ELSE Len(v) + 1

\* C17 as stated: every Observe and every Unobserve prunes all stale slots:
\* after the call no stale slot is left, wherever it was relative to the
\* target, and the live slots keep their order.
C17_NoStaleSlotAfterCall ==
  [][\A o \in Observers, t \in Targets :
       (ObserveCall(o, t) \/ UnobserveCall(o, t)) =>
         /\ NULL \notin Range(observation_targets_'[o])
         /\ Without(observation_targets_'[o], t) =
              Without(LiveSlots(observation_targets_[o]), t)]_vars

\* C17 as amended: Observe and Unobserve prune the stale slots in front of the
\* target's slot, all of them when the target is not tracked; the slots after
\* the target's slot are left as they are, stale ones included, and the live
\* slots keep their order.
C17_StaleSlotsBeforeTargetPruned ==
  [][\A o \in Observers, t \in Targets :
       LET v == observation_targets_[o]
           k == FirstIndex(v, t)
           front == LiveSlots(SubSeq(v, 1, k - 1))
       IN /\ ObserveCall(o, t) =>
               observation_targets_'[o] =
                 IF k <= Len(v) THEN front \o SubSeq(v, k, Len(v)) ELSE Append(front, t)
          /\ UnobserveCall(o, t) =>
               observation_targets_'[o] = front \o SubSeq(v, k + 1, Len(v))]_vars

\* Observe() on a tracked target that had a stale slot on either side: the one
\* in front is gone, the one behind is still there.
C17_Witness ==
  /\ lastOp.op = "Observe"
  /\ lastOp.calls # <<>>
  /\ lastOp.calls[1].target = "A"
  /\ alive = {"A"}
  /\ observation_targets_[lastOp.obs] = <<"A", NULL>>

\* The ids of the entries in a sequence of entries.
Ids(entries) == {entries[i].id : i \in 1..Len(entries)}

\* C12: when the callback raises an exception during Notify() on a non-empty
\* queue, Notify() returns false and the batch it drained is not queued again:
\* the queue holds only what was queued since the drain; a Notify() of another
\* observer with pending entries, next in the same sweep, still invokes that
\* observer's callback with that observer's own batch.
C12_ExceptionFailsOnlyItsOwnNotify ==
  [][\A o \in Observers :
       /\ (cb.obs = o /\ cb' = NoFrame /\ lastOp'.raised) =>
            /\ lastOp'.op = "Notify" /\ lastOp'.obs = o
            /\ ~lastOp'.ok
            /\ queued_entries_'[o] = appended[o]
            /\ Ids(queued_entries_'[o]) \cap Ids(cb.calls[1].batch) = {}
       /\ (lastOp.op = "Notify" /\ lastOp.raised /\ lastOp.obs # o
             /\ queued_entries_[o] # <<>> /\ NotifyStepOf(o)) =>
            /\ cb' = [obs |-> o, calls |-> <<Call("RunCallback", None, queued_entries_[o], o)>>]
            /\ queued_entries_'[o] = <<>>
            /\ queued_entries_'[lastOp.obs] = queued_entries_[lastOp.obs]]_vars

\* The callback of o2 is running with a batch right after the Notify() of o1
\* returned false because its callback raised.
C12_Witness ==
  /\ lastOp.op = "Notify"
  /\ lastOp.obs = "o1"
  /\ lastOp.raised
  /\ ~lastOp.ok
  /\ cb.obs = "o2"
  /\ cb.calls[1].batch # <<>>

\* C20: Notify() is safe under calls re-entering the observer from its own
\* callback.  The batch is fixed before the callback runs and no nested
\* TakeRecords(), Disconnect() or queued entry changes it; an entry queued
\* while the callback runs is not in the current batch and stays queued for
\* the next drain; a nested TakeRecords() returns only the entries queued
\* since the drain, never one of the current batch.
C20_NotifyReentrantSafe ==
  [][\A o \in Observers :
       /\ (cb = NoFrame /\ cb'.obs = o) =>
            cb'.calls = <<Call("RunCallback", None, queued_entries_[o], o)>>
       /\ (cb.obs = o /\ cb' # NoFrame) => cb' = cb
       /\ (cb.obs = o /\ cb' = NoFrame) =>
            /\ lastOp'.calls = cb.calls
            /\ queued_entries_'[o] = appended[o]
       /\ (cb.obs = o /\ NestedQueueEntryCall(o)) =>
            /\ nextEntry \notin Ids(cb.calls[1].batch)
            /\ queued_entries_'[o] = Append(queued_entries_[o], [id |-> nextEntry])
            /\ appended'[o] = Append(appended[o], [id |-> nextEntry])
       /\ (cb.obs = o /\ TakeRecordsCall(o)) =>
            /\ lastOp'.records = appended[o]
            /\ Ids(lastOp'.records) \cap Ids(cb.calls[1].batch) = {}
       /\ (cb.obs = o /\ DisconnectCall(o)) => queued_entries_'[o] = <<>>
       /\ (cb.obs = o) => Ids(queued_entries_[o]) \cap Ids(cb.calls[1].batch) = {}]_vars

\* A TakeRecords() called from the running callback of the observer returned
\* an entry that was queued after the callback had started.
C20_Witness ==
  /\ cb # NoFrame
  /\ lastOp.op = "TakeRecords"
  /\ lastOp.obs = cb.obs
  /\ lastOp.records # <<>>
  /\ cb.calls[1].batch # <<>>

\* C19: with the registration list of a target taken as a set (registration
\* adds the observer, deregistration removes it), after any sequence of
\* Observe, Unobserve and Disconnect on live observers and targets, a target is
\* in an observer's tracked sequence exactly when the observer is in the
\* target's registration set.
C19_TrackedIffRegistered ==
  \A o \in Observers, t \in Targets :
    life[o] = "live" => (t \in Range(observation_targets_[o]) <=> o \in backrefs[t])

\* Two observers track the same target, one of them a second target as well,
\* after the other one unobserved something.
C19_Witness ==
  /\ lastOp.op = "Unobserve"
  /\ lastOp.obs = "o2"
  /\ life = [o \in Observers |-> "live"]
  /\ backrefs["A"] = {"o1", "o2"}
  /\ backrefs["B"] = {"o1"}
  /\ observation_targets_["o1"] = <<"B", "A">>
  /\ observation_targets_["o2"] = <<"A">>

\* This step is a turn of o's update loop that asks target t to update.
AsksToUpdate(o, t) ==
  /\ pass'.obs = o
  /\ Len(pass'.visited) = Len(pass.visited) + 1
  /\ pass'.visited[Len(pass'.visited)] = t

\* C13: a target that was unobserved and not observed again is not asked to
\* update by UpdateObservationTargets(), in this pass or a later one: the loop
\* asks only targets that were tracked at some moment since it began, and,
\* while its iterators are valid, only targets tracked at that moment.
C13_UnobservedTargetNotAsked ==
  [][\A o \in Observers, t \in Targets :
       AsksToUpdate(o, t) =>
         /\ t \in pass'.tracked
         /\ pass'.valid => t \in Range(first_observed[o])]_vars

\* Unobserve(A) was the last method called, and the running update loop, its
\* iterators valid, has asked B and C but not A.
C13_Witness ==
  /\ pass.obs = "o1"
  /\ pass.valid
  /\ lastOp.op = "Unobserve"
  /\ lastOp.calls # <<>>
  /\ lastOp.calls[1].target = "A"
  /\ pass.visited = <<"B", "C">>
  /\ "A" \notin pass.tracked

\* C16: UpdateObservationTargets() asks the tracked targets in Observe order
\* and tolerates Observe, Unobserve and Disconnect called from within a
\* target's update: its iteration is never invalidated, and every target
\* tracked for the whole pass is asked exactly once.
C16_UpdateToleratesNestedMutation ==
  [][\A o \in Observers :
       /\ pass'.obs = o => pass'.valid
       /\ (pass.obs = o /\ pass' = NoPass) =>
            /\ \A t \in pass.whole :
                 Cardinality({i \in 1..Len(pass.visited) : pass.visited[i] = t}) = 1
            /\ \A i, j \in 1..Len(pass.visited) :
                 (i < j /\ pass.visited[i] \in pass.whole /\ pass.visited[j] \in pass.whole) =>
                   \E k, l \in 1..Len(first_observed[o]) :
                     /\ k < l
                     /\ first_observed[o][k] = pass.visited[i]
                     /\ first_observed[o][l] = pass.visited[j]]_vars

=============================================================================
